---- MODULE Spec2Model ----
(***************************************************************************)
(* Model of the 990 lookup gateway (src/app.py): a Flask application with  *)
(* three data endpoints that proxy one upstream JSON API.  Strings are     *)
(* sequences of one-character strings; an upstream URL is the sequence the *)
(* f-string builds: the fixed pieces are single tokens, the interpolated   *)
(* values contribute their characters.                                     *)
(***************************************************************************)
EXTENDS Naturals, Sequences, FiniteSets

VARIABLES pc, route, req, upstream, calls, resp, escaped

vars == <<pc, route, req, upstream, calls, resp, escaped>>

(***************************************************************************)
(* Bounds of the enumeration of inbound strings.                           *)
(***************************************************************************)
MaxEinLen == 4
MaxQueryLen == 2
MaxStateLen == 3
MaxDomainLen == 4

(***************************************************************************)
(* Python str primitives used by the handlers.                             *)
(***************************************************************************)
LowerLetters == <<"a", "b", "c", "d", "e", "f", "g", "h", "i", "j", "k", "l", "m",
                  "n", "o", "p", "q", "r", "s", "t", "u", "v", "w", "x", "y", "z">>
UpperLetters == <<"A", "B", "C", "D", "E", "F", "G", "H", "I", "J", "K", "L", "M",
                  "N", "O", "P", "Q", "R", "S", "T", "U", "V", "W", "X", "Y", "Z">>
Digits == {"0", "1", "2", "3", "4", "5", "6", "7", "8", "9"}
Range(f) == {f[i] : i \in DOMAIN f}

IsSpace(c) == c = " "
IsAlpha(c) == c \in Range(LowerLetters) \cup Range(UpperLetters)

\* str.upper() on one character
UpperChar(c) ==
    IF c \in Range(LowerLetters)
    THEN UpperLetters[CHOOSE i \in DOMAIN LowerLetters : LowerLetters[i] = c]
    ELSE c

\* str.lower() on one character
LowerChar(c) ==
    IF c \in Range(UpperLetters)
    THEN LowerLetters[CHOOSE i \in DOMAIN UpperLetters : UpperLetters[i] = c]
    ELSE c

Upper(s) == [i \in DOMAIN s |-> UpperChar(s[i])]
Lower(s) == [i \in DOMAIN s |-> LowerChar(s[i])]

RECURSIVE LStrip(_)
LStrip(s) == IF s # <<>> /\ IsSpace(Head(s)) THEN LStrip(Tail(s)) ELSE s

RECURSIVE RStrip(_)
RStrip(s) ==
    IF s # <<>> /\ IsSpace(s[Len(s)]) THEN RStrip(SubSeq(s, 1, Len(s) - 1)) ELSE s

\* str.strip()
Strip(s) == RStrip(LStrip(s))

\* str.replace(c, '')
Remove(s, c) == SelectSeq(s, LAMBDA x : x # c)

\* str.find(c, start) with 1-based positions; 0 when c does not occur
Find(s, c, start) ==
    IF \E i \in start..Len(s) : s[i] = c
    THEN CHOOSE i \in start..Len(s) : s[i] = c /\ \A j \in start..(i - 1) : s[j] # c
    ELSE 0

\* sub in s
Contains(s, sub) ==
    \E i \in 1..(Len(s) - Len(sub) + 1) : SubSeq(s, i, i + Len(sub) - 1) = sub

\* str.split(sep) for a one-character separator: never an empty list
RECURSIVE Split(_, _)
Split(s, sep) ==
    LET i == Find(s, sep, 1)
    IN  IF i = 0 THEN <<s>>
        ELSE <<SubSeq(s, 1, i - 1)>> \o Split(SubSeq(s, i + 1, Len(s)), sep)

\* all strings over an alphabet up to a length
Strings(alphabet, n) == UNION {[1..k -> alphabet] : k \in 0..n}

(***************************************************************************)
(* The upstream API as the handlers see it through requests.get: the call  *)
(* raises (a timeout or another transport failure) or returns a response   *)
(* with a status code and a body that is a JSON value or not JSON at all.  *)
(***************************************************************************)
API_BASE == "https://projects.propublica.org/nonprofits/api/v2"
USER_AGENT == "GoldenVolunteer-990Lookup/1.0"
REQUEST_TIMEOUT == 30

\* JSON values by shape; an object records what its "organizations" key holds
JsonValue(t, orgs) == [t |-> t, organizations |-> orgs]
JsonValues ==
    {JsonValue("object", o) : o \in {"absent", "array", "string", "object", "number", "null"}}
    \cup {JsonValue(t, "absent") : t \in {"array", "string", "number", "null"}}
NotJson == [t |-> "not-json", organizations |-> "absent"]

\* the class response.json() raises on an undecodable body depends on the
\* installed requests release: requests.exceptions.JSONDecodeError (a
\* RequestException) or a plain ValueError
JsonErrorClasses == {"JSONDecodeError", "ValueError"}

Outcome(kind, status, body, jsonExc) ==
    [kind |-> kind, status_code |-> status, body |-> body, json_exc |-> jsonExc]
TransportFailures == {"ConnectTimeout", "ReadTimeout", "ConnectionError"}
ErrorStatuses == {400, 404, 500, 503}
Outcomes ==
    {Outcome(k, 0, NotJson, "ValueError") : k \in TransportFailures}
    \cup {Outcome("response", 200, b, "ValueError") : b \in JsonValues}
    \cup {Outcome("response", 200, NotJson, x) : x \in JsonErrorClasses}
    \cup {Outcome("response", s, NotJson, "ValueError") : s \in ErrorStatuses}
NoOutcome == Outcome("none", 0, NotJson, "ValueError")

\* the exception classes involved and their direct base classes
Bases(cls) ==
    CASE cls = "ConnectTimeout" -> {"ConnectionError", "Timeout"}
      [] cls = "ReadTimeout" -> {"Timeout"}
      [] cls = "Timeout" -> {"RequestException"}
      [] cls = "ConnectionError" -> {"RequestException"}
      [] cls = "HTTPError" -> {"RequestException"}
      [] cls = "JSONDecodeError" -> {"RequestException", "ValueError"}
      [] cls = "RequestException" -> {"Exception"}
      [] cls = "ValueError" -> {"Exception"}
      [] cls = "AttributeError" -> {"Exception"}
      [] cls = "TypeError" -> {"Exception"}
      [] cls = "NotFound" -> {"Exception"}
      [] OTHER -> {}

RECURSIVE IsInstance(_, _)
IsInstance(exc, cls) == exc = cls \/ \E b \in Bases(exc) : IsInstance(b, cls)

\* what a try block or a view ends with: the upstream calls it issued, the
\* exception it raised ("none" when it returned) and the response it returned
NoResponse == [status |-> 0, body |-> [none |-> TRUE]]
Returned(cs, status, body) ==
    [calls |-> cs, exc |-> "none", resp |-> [status |-> status, body |-> body]]
Raised(cs, exc) == [calls |-> cs, exc |-> exc, resp |-> NoResponse]

\* jsonify({'error': msg})
ErrorBody(msg) == [error |-> msg]

\* faulty variant: a timed-out call is issued a second time
requests_get_retry(url, o) ==
    LET call == [url |-> url, timeout |-> REQUEST_TIMEOUT, user_agent |-> USER_AGENT]
    IN  [calls |-> IF o.kind \in {"ConnectTimeout", "ReadTimeout"}
                   THEN <<call, call>> ELSE <<call>>,
         exc |-> IF o.kind = "response" THEN "none" ELSE o.kind]

\* requests.get(url, timeout=30, headers={'User-Agent': ...}): one call, no retry
requests_get(url, o) ==
    [calls |-> <<[url |-> url, timeout |-> REQUEST_TIMEOUT, user_agent |-> USER_AGENT]>>,
     exc |-> IF o.kind = "response" THEN "none" ELSE o.kind]

\* response.raise_for_status(): HTTPError for 4xx and 5xx
raise_for_status(o) ==
    IF 400 <= o.status_code /\ o.status_code < 600 THEN "HTTPError" ELSE "none"

\* response.json(): the decoded body, or the decode error of the build
response_json(o) == IF o.body = NotJson THEN o.json_exc ELSE "none"

(***************************************************************************)
(* GET /api/organization/<ein>                                             *)
(***************************************************************************)
\* faulty variant: trims before it removes the hyphens
ein_clean_strip_first(ein) == Remove(Strip(ein), "-")

ein_clean(ein) == Strip(Remove(ein, "-"))

organization_url(ein) == <<API_BASE, "/organizations/">> \o ein_clean(ein) \o <<".json">>

\* faulty variant: no special case for an upstream 404
get_organization_try_no_404(ein, o) ==
    LET r == requests_get(organization_url(ein), o)
    IN  IF r.exc # "none" THEN Raised(r.calls, r.exc)
        ELSE IF raise_for_status(o) # "none" THEN Raised(r.calls, raise_for_status(o))
        ELSE IF response_json(o) # "none" THEN Raised(r.calls, response_json(o))
        ELSE Returned(r.calls, 200, o.body)

get_organization_try(ein, o) ==
    LET r == requests_get(organization_url(ein), o)
    IN  IF r.exc # "none" THEN Raised(r.calls, r.exc)
        ELSE IF o.status_code = 404
             THEN Returned(r.calls, 404, ErrorBody("Organization not found"))
        ELSE IF raise_for_status(o) # "none" THEN Raised(r.calls, raise_for_status(o))
        ELSE IF response_json(o) # "none" THEN Raised(r.calls, response_json(o))
        ELSE Returned(r.calls, 200, o.body)

\* faulty variant: no catch-all except clause
get_organization_except_requests_only(t) ==
    IF IsInstance(t.exc, "Timeout")
    THEN Returned(t.calls, 504, ErrorBody("Request timeout"))
    ELSE IF IsInstance(t.exc, "RequestException")
    THEN Returned(t.calls, 500, ErrorBody("Failed to fetch organization data"))
    ELSE t

get_organization_except(t) ==
    IF IsInstance(t.exc, "Timeout")
    THEN Returned(t.calls, 504, ErrorBody("Request timeout"))
    ELSE IF IsInstance(t.exc, "RequestException")
    THEN Returned(t.calls, 500, ErrorBody("Failed to fetch organization data"))
    ELSE IF IsInstance(t.exc, "Exception")
    THEN Returned(t.calls, 500, ErrorBody("Internal server error"))
    ELSE t

get_organization(ein, o) ==
    LET t == get_organization_try(ein, o)
    IN  IF t.exc = "none" THEN t ELSE get_organization_except(t)

(***************************************************************************)
(* GET /api/search                                                         *)
(***************************************************************************)
\* request.args.get(key, ''): args is a function on the parameters present
args_get(args, key) == IF key \in DOMAIN args THEN args[key] ELSE <<>>

search_query(args) == Strip(args_get(args, "q"))
\* faulty variant: the state is trimmed and not uppercased
search_state_as_given(args) == Strip(args_get(args, "state"))

search_state(args) == Upper(Strip(args_get(args, "state")))

search_url(query, state) ==
    <<API_BASE, "/search.json?q=">> \o query
        \o (IF state # <<>> THEN <<"&state[id]=">> \o state ELSE <<>>)

\* len(data.get('organizations', [])): only a dict has .get, and only a
\* sized value has a len
result_count(data) ==
    IF data.t # "object" THEN "AttributeError"
    ELSE IF data.organizations \in {"number", "null"} THEN "TypeError"
    ELSE "none"

\* faulty variant: q is validated after the upstream call
search_organizations_try_late_check(args, o) ==
    LET query == search_query(args)
        state == search_state(args)
        r == requests_get(search_url(query, state), o)
    IN  IF r.exc # "none" THEN Raised(r.calls, r.exc)
        ELSE IF query = <<>>
        THEN Returned(r.calls, 400, ErrorBody("Query parameter \"q\" is required"))
        ELSE IF raise_for_status(o) # "none" THEN Raised(r.calls, raise_for_status(o))
        ELSE IF response_json(o) # "none" THEN Raised(r.calls, response_json(o))
        ELSE IF result_count(o.body) # "none" THEN Raised(r.calls, result_count(o.body))
        ELSE Returned(r.calls, 200, o.body)

search_organizations_try(args, o) ==
    LET query == search_query(args)
        state == search_state(args)
        r == requests_get(search_url(query, state), o)
    IN  IF query = <<>>
        THEN Returned(<<>>, 400, ErrorBody("Query parameter \"q\" is required"))
        ELSE IF r.exc # "none" THEN Raised(r.calls, r.exc)
        ELSE IF raise_for_status(o) # "none" THEN Raised(r.calls, raise_for_status(o))
        ELSE IF response_json(o) # "none" THEN Raised(r.calls, response_json(o))
        ELSE IF result_count(o.body) # "none" THEN Raised(r.calls, result_count(o.body))
        ELSE Returned(r.calls, 200, o.body)

\* faulty variant: the RequestException clause precedes the Timeout clause
search_organizations_except_reordered(t) ==
    IF IsInstance(t.exc, "RequestException")
    THEN Returned(t.calls, 500, ErrorBody("Failed to search organizations"))
    ELSE IF IsInstance(t.exc, "Timeout")
    THEN Returned(t.calls, 504, ErrorBody("Request timeout"))
    ELSE IF IsInstance(t.exc, "Exception")
    THEN Returned(t.calls, 500, ErrorBody("Internal server error"))
    ELSE t

search_organizations_except(t) ==
    IF IsInstance(t.exc, "Timeout")
    THEN Returned(t.calls, 504, ErrorBody("Request timeout"))
    ELSE IF IsInstance(t.exc, "RequestException")
    THEN Returned(t.calls, 500, ErrorBody("Failed to search organizations"))
    ELSE IF IsInstance(t.exc, "Exception")
    THEN Returned(t.calls, 500, ErrorBody("Internal server error"))
    ELSE t

search_organizations(args, o) ==
    LET t == search_organizations_try(args, o)
    IN  IF t.exc = "none" THEN t ELSE search_organizations_except(t)

(***************************************************************************)
(* GET /api/search-domain                                                  *)
(***************************************************************************)
SchemeChars == Range(LowerLetters) \cup Range(UpperLetters) \cup Digits \cup {"+", "-", "."}
SchemeSeparator == <<":", "/", "/">>
DefaultScheme == <<"h", "t", "t", "p">> \o SchemeSeparator

\* urllib.parse._splitnetloc(url, 2): up to the first of / ? #
splitnetloc(url) ==
    LET ends == {i \in 3..Len(url) : url[i] \in {"/", "?", "#"}}
        delim == IF ends = {} THEN Len(url) + 1
                 ELSE CHOOSE i \in ends : \A j \in ends : i <= j
    IN  SubSeq(url, 3, delim - 1)

\* urllib.parse.urlparse(url): the scheme and the netloc, or the ValueError
\* of a netloc with an unmatched bracket
urlparse(url) ==
    LET i == Find(url, ":", 1)
        hasScheme == /\ i > 1
                     /\ IsAlpha(url[1])
                     /\ \A k \in 1..(i - 1) : url[k] \in SchemeChars
        scheme == IF hasScheme THEN Lower(SubSeq(url, 1, i - 1)) ELSE <<>>
        rest == IF hasScheme THEN SubSeq(url, i + 1, Len(url)) ELSE url
        netloc == IF SubSeq(rest, 1, 2) = <<"/", "/">> THEN splitnetloc(rest) ELSE <<>>
        open == \E k \in DOMAIN netloc : netloc[k] = "["
        close == \E k \in DOMAIN netloc : netloc[k] = "]"
    IN  [exc |-> IF open # close THEN "ValueError" ELSE "none",
         scheme |-> scheme, netloc |-> netloc]

domain_param(args) == Strip(args_get(args, "domain"))

\* domain if '://' in domain else f'http://{domain}'
with_scheme(domain) ==
    IF Contains(domain, SchemeSeparator) THEN domain ELSE DefaultScheme \o domain

\* domain_parts[0] if domain_parts else domain
search_term(domain) ==
    LET domain_parts == Split(urlparse(with_scheme(domain)).netloc, ".")
    IN  IF domain_parts # <<>> THEN domain_parts[1] ELSE domain

domain_url(term) == <<API_BASE, "/search.json?q=">> \o term

search_by_domain_try(args, o) ==
    LET domain == domain_param(args)
        parsed == urlparse(with_scheme(domain))
        r == requests_get(domain_url(search_term(domain)), o)
    IN  IF domain = <<>>
        THEN Returned(<<>>, 400, ErrorBody("Query parameter \"domain\" is required"))
        ELSE IF parsed.exc # "none" THEN Raised(<<>>, parsed.exc)
        ELSE IF r.exc # "none" THEN Raised(r.calls, r.exc)
        ELSE IF raise_for_status(o) # "none" THEN Raised(r.calls, raise_for_status(o))
        ELSE IF response_json(o) # "none" THEN Raised(r.calls, response_json(o))
        ELSE Returned(r.calls, 200, o.body)

search_by_domain_except(t) ==
    IF IsInstance(t.exc, "Exception")
    THEN Returned(t.calls, 500, ErrorBody("Failed to search by domain"))
    ELSE t

search_by_domain(args, o) ==
    LET t == search_by_domain_try(args, o)
    IN  IF t.exc = "none" THEN t ELSE search_by_domain_except(t)

(***************************************************************************)
(* The other routes and the application's error handlers.                  *)
(***************************************************************************)
\* send_from_directory('.', 'index.html'): the page, or NotFound without it
index(pageExists) ==
    IF pageExists THEN Returned(<<>>, 200, [page |-> "index.html"])
    ELSE Raised(<<>>, "NotFound")

health == Returned(<<>>, 200, [status |-> "healthy", service |-> "990-lookup"])

not_found(t) == Returned(t.calls, 404, ErrorBody("Endpoint not found"))
internal_error(t) == Returned(t.calls, 500, ErrorBody("Internal server error"))

\* Flask's dispatch of a view's result: a NotFound goes to the 404 handler,
\* any other exception leaving the view to the 500 handler
dispatch(t) ==
    IF t.exc = "none" THEN t
    ELSE IF IsInstance(t.exc, "NotFound") THEN not_found(t)
    ELSE internal_error(t)

(***************************************************************************)
(* Inbound requests: every string up to a bound over a small alphabet that *)
(* holds the characters the handlers treat specially, and the              *)
(* specification's own examples.                                           *)
(***************************************************************************)
EinChars == {"-", " ", "1", "2"}
QueryChars == {" ", "a"}
StateChars == {" ", "c", "a", "C"}
DomainChars == {" ", "a", ".", "/", ":"}

EinExamples ==
    {<<"5", "3", "-", "0", "1", "9", "6", "6", "0", "5", " ">>,
     <<" ", "-", " ", "1", "2">>}
QueryExamples == {<<"r", "e", "d", " ", "c", "r", "o", "s", "s">>}
DomainExamples ==
    {<<"r", "e", "d", "c", "r", "o", "s", "s", ".", "o", "r", "g">>,
     <<"h", "t", "t", "p", "s", ":", "/", "/", "w", "w", "w", ".", "r", "e", "d", "c",
       "r", "o", "s", "s", ".", "o", "r", "g", "/", "d", "o", "n", "a", "t", "e">>,
     <<"h", "t", "t", "p", ":", "/", "/">>,
     <<".", "o", "r", "g">>,
     <<"h", "t", "t", "p", "s", ":", "/", "/", ".", "e", "x", "a", "m", "p", "l", "e",
       ".", "c", "o", "m">>,
     <<"a", ".", "o", "r", "g", ":", "8", "0">>,
     <<"[", "a", ".", "o", "r", "g">>}

\* the <ein> converter matches a non-empty path segment
EinInputs == (Strings(EinChars, MaxEinLen) \ {<<>>}) \cup EinExamples
QueryInputs == Strings(QueryChars, MaxQueryLen) \cup QueryExamples
StateInputs == Strings(StateChars, MaxStateLen)
DomainInputs == Strings(DomainChars, MaxDomainLen) \cup DomainExamples

NoArgs == [k \in {} |-> <<>>]
SearchArgs ==
    {[k \in {"q", "state"} |-> IF k = "q" THEN q ELSE s] :
        q \in QueryInputs, s \in StateInputs}
    \cup {[k \in {"q"} |-> q] : q \in QueryInputs}
    \cup {[k \in {"state"} |-> s] : s \in StateInputs}
    \cup {NoArgs}
DomainArgs ==
    {[k \in {"domain"} |-> d] : d \in DomainInputs}
    \cup {[k \in {"domain", "state"} |-> IF k = "domain" THEN d ELSE <<"c", "a">>] :
            d \in DomainInputs}
    \cup {NoArgs, [k \in {"state"} |-> <<"c", "a">>]}
UnroutedPaths == {"/api/organization/", "/api/organisation", "/favicon.ico"}

Request(path, ein, args) == [path |-> path, ein |-> ein, args |-> args]

(***************************************************************************)
(* The state of one worker: whether it is idle or has responded, the       *)
(* request it served, what the upstream would answer while it was served,  *)
(* the upstream calls issued for it, the response sent, and the exception  *)
(* that left the view ("none" when it returned).  Requests share no state, *)
(* so concurrent workers are independent copies of this machine.           *)
(***************************************************************************)
Init ==
    /\ pc = "idle"
    /\ route = "none"
    /\ req = Request("", <<>>, NoArgs)
    /\ upstream = NoOutcome
    /\ calls = <<>>
    /\ resp = NoResponse
    /\ escaped = "none"

Serve(name, request, o, t) ==
    /\ pc' = "responded"
    /\ route' = name
    /\ req' = request
    /\ upstream' = o
    /\ calls' = dispatch(t).calls
    /\ resp' = dispatch(t).resp
    /\ escaped' = t.exc

Index ==
    /\ pc = "idle"
    /\ \E pageExists \in BOOLEAN, o \in Outcomes :
        Serve("index", Request("/", <<>>, NoArgs), o, index(pageExists))

Health ==
    /\ pc = "idle"
    /\ \E o \in Outcomes : Serve("health", Request("/health", <<>>, NoArgs), o, health)

GetOrganization ==
    /\ pc = "idle"
    /\ \E ein \in EinInputs, o \in Outcomes :
        Serve("get_organization", Request("/api/organization/<ein>", ein, NoArgs), o,
              get_organization(ein, o))

SearchOrganizations ==
    /\ pc = "idle"
    /\ \E args \in SearchArgs, o \in Outcomes :
        Serve("search_organizations", Request("/api/search", <<>>, args), o,
              search_organizations(args, o))

SearchByDomain ==
    /\ pc = "idle"
    /\ \E args \in DomainArgs, o \in Outcomes :
        Serve("search_by_domain", Request("/api/search-domain", <<>>, args), o,
              search_by_domain(args, o))

NoRoute ==
    /\ pc = "idle"
    /\ \E path \in UnroutedPaths, o \in Outcomes :
        Serve("none", Request(path, <<>>, NoArgs), o, Raised(<<>>, "NotFound"))

\* the request context is popped; the worker takes the next request
Teardown ==
    /\ pc = "responded"
    /\ pc' = "idle"
    /\ route' = "none"
    /\ req' = Request("", <<>>, NoArgs)
    /\ upstream' = NoOutcome
    /\ calls' = <<>>
    /\ resp' = NoResponse
    /\ escaped' = "none"

Next ==
    \/ Index
    \/ Health
    \/ GetOrganization
    \/ SearchOrganizations
    \/ SearchByDomain
    \/ NoRoute
    \/ Teardown

Spec == Init /\ [][Next]_vars

(***************************************************************************)
(* Reading an issued upstream call back: the parts of its URL.             *)
(***************************************************************************)
Responded(r) == pc = "responded" /\ route = r
Response(status, msg) == [status |-> status, body |-> ErrorBody(msg)]
TimedOut == upstream.kind \in {"ConnectTimeout", "ReadTimeout"}
HttpError == upstream.kind = "response" /\ upstream.status_code \in 400..599
Blank(s) == \A i \in DOMAIN s : s[i] = " "
Missing(key) == key \notin DOMAIN req.args \/ Blank(req.args[key])

IsOrganizationUrl(url) ==
    /\ Len(url) >= 3
    /\ url[1] = API_BASE
    /\ url[2] = "/organizations/"
    /\ url[Len(url)] = ".json"
SentIdentifier(url) == SubSeq(url, 3, Len(url) - 1)

IsSearchUrl(url) == Len(url) >= 2 /\ url[1] = API_BASE /\ url[2] = "/search.json?q="
StateAt(url) == Find(url, "&state[id]=", 1)
SentQuery(url) == SubSeq(url, 3, IF StateAt(url) = 0 THEN Len(url) ELSE StateAt(url) - 1)
SentState(url) == SubSeq(url, StateAt(url) + 1, Len(url))

\* a string without its leading and trailing blanks, by positions
Trimmed(s) ==
    LET keep == {i \in DOMAIN s : s[i] # " "}
    IN  IF keep = {} THEN <<>>
        ELSE SubSeq(s, CHOOSE i \in keep : \A j \in keep : i <= j,
                       CHOOSE i \in keep : \A j \in keep : j <= i)

(***************************************************************************)
(* C1: when the upstream call of a request times out, the organization and *)
(* the name search endpoints answer 504 {"error": "Request timeout"}, the  *)
(* domain search endpoint answers 500 {"error": "Failed to search by       *)
(* domain"}, and exactly one upstream call was issued for the request.     *)
(***************************************************************************)
C1_TimeoutMapping ==
    (pc = "responded" /\ calls # <<>> /\ TimedOut) =>
        /\ Len(calls) = 1
        /\ route \in {"get_organization", "search_organizations", "search_by_domain"}
        /\ route = "get_organization" => resp = Response(504, "Request timeout")
        /\ route = "search_organizations" => resp = Response(504, "Request timeout")
        /\ route = "search_by_domain" => resp = Response(500, "Failed to search by domain")

C1_Witness ==
    /\ Responded("search_by_domain")
    /\ upstream.kind = "ReadTimeout"
    /\ Len(calls) = 1
    /\ resp.status = 500

(***************************************************************************)
(* C2: for the organization endpoint an upstream 404 gives 404             *)
(* {"error": "Organization not found"}, and any other upstream 4xx/5xx or  *)
(* a transport failure that is no timeout gives 500 {"error": "Failed to   *)
(* fetch organization data"}.                                              *)
(***************************************************************************)
C2_OrganizationErrors ==
    Responded("get_organization") =>
        /\ (upstream.kind = "response" /\ upstream.status_code = 404)
              => resp = Response(404, "Organization not found")
        /\ ((HttpError /\ upstream.status_code # 404) \/ upstream.kind = "ConnectionError")
              => resp = Response(500, "Failed to fetch organization data")

C2_Witness ==
    /\ Responded("get_organization")
    /\ upstream.kind = "response"
    /\ upstream.status_code = 404
    /\ resp.status = 404

(***************************************************************************)
(* C3: a name search whose q is missing, empty or blank, and a domain      *)
(* search whose domain is missing, empty or blank, get 400 with the error  *)
(* naming the parameter, and no upstream call is issued, whatever the      *)
(* upstream would answer and whatever other parameters are present.        *)
(***************************************************************************)
C3_ValidationFirst ==
    /\ (Responded("search_organizations") /\ Missing("q")) =>
          /\ resp = Response(400, "Query parameter \"q\" is required")
          /\ calls = <<>>
    /\ (Responded("search_by_domain") /\ Missing("domain")) =>
          /\ resp = Response(400, "Query parameter \"domain\" is required")
          /\ calls = <<>>

C3_Witness ==
    /\ Responded("search_organizations")
    /\ "q" \in DOMAIN req.args
    /\ req.args["q"] = <<" ">>
    /\ "state" \in DOMAIN req.args
    /\ req.args["state"] # <<>>
    /\ upstream.kind = "response"
    /\ upstream.status_code = 200
    /\ resp.status = 400

OrganizationResponse(o) == get_organization(<<"1">>, o).resp
Undecodable == upstream.kind = "response" /\ ~HttpError /\ upstream.body = NotJson
TransportOrHttpFailure ==
    \/ upstream.kind = "ConnectionError"
    \/ HttpError
    \/ (Undecodable /\ upstream.json_exc = "JSONDecodeError")

C5_SameMapping ==
    (Responded("search_organizations") /\ calls # <<>>) =>
        /\ (TimedOut \/ (TransportOrHttpFailure /\ upstream.status_code # 404) \/ Undecodable)
              => resp = OrganizationResponse(upstream)
        /\ (HttpError /\ upstream.status_code = 404)
              => resp = OrganizationResponse(Outcome("response", 500, NotJson, "ValueError"))

(***************************************************************************)
(* C5 amended: for every failure kind the name search returns the status   *)
(* code the organization endpoint returns for that kind (an upstream 404   *)
(* counting as an HTTP failure, 500); the body is the same for a timeout   *)
(* ("Request timeout") and for an unexpected failure ("Internal server     *)
(* error"), and is the endpoint's own "Failed to search organizations" for *)
(* a transport or HTTP failure.                                            *)
(***************************************************************************)
C5_SameStatusOwnMessage ==
    (Responded("search_organizations") /\ calls # <<>>) =>
        /\ (TimedOut \/ (TransportOrHttpFailure /\ upstream.status_code # 404) \/ Undecodable)
              => resp.status = OrganizationResponse(upstream).status
        /\ TimedOut =>
              /\ resp = OrganizationResponse(upstream)
              /\ resp = Response(504, "Request timeout")
        /\ (Undecodable /\ upstream.json_exc = "ValueError") =>
              /\ resp = OrganizationResponse(upstream)
              /\ resp = Response(500, "Internal server error")
        /\ TransportOrHttpFailure => resp = Response(500, "Failed to search organizations")
        /\ (upstream.kind = "response" /\ upstream.body # NotJson
            /\ result_count(upstream.body) # "none")
              => resp = Response(500, "Internal server error")

C5_Witness ==
    /\ Responded("search_organizations")
    /\ upstream.kind = "ConnectionError"
    /\ Len(calls) = 1
    /\ resp = Response(500, "Failed to search organizations")
    /\ OrganizationResponse(upstream) = Response(500, "Failed to fetch organization data")

(***************************************************************************)
(* C6: the identifier in the upstream path of the organization endpoint is *)
(* the input without its hyphens and without the blanks that then lead or  *)
(* trail it: it holds no hyphen and neither begins nor ends with a blank.  *)
(***************************************************************************)
ExpectedIdentifier(ein) ==
    LET keep == {i \in DOMAIN ein : ein[i] \notin {"-", " "}}
    IN  IF keep = {} THEN <<>>
        ELSE SelectSeq(SubSeq(ein, CHOOSE i \in keep : \A j \in keep : i <= j,
                                   CHOOSE i \in keep : \A j \in keep : j <= i),
                       LAMBDA c : c # "-")

C6_NormalizedIdentifier ==
    Responded("get_organization") =>
        /\ Len(calls) = 1
        /\ IsOrganizationUrl(calls[1].url)
        /\ LET sent == SentIdentifier(calls[1].url)
           IN  /\ sent = ExpectedIdentifier(req.ein)
               /\ \A i \in DOMAIN sent : sent[i] # "-"
               /\ sent # <<>> => (sent[1] # " " /\ sent[Len(sent)] # " ")

C6_Witness ==
    /\ Responded("get_organization")
    /\ req.ein = <<" ", "-", " ", "1", "2">>
    /\ SentIdentifier(calls[1].url) = <<"1", "2">>

(***************************************************************************)
(* C7 as stated: in every upstream call of the name search the state       *)
(* filter, when present, is an uppercase two-letter value in state[id],    *)
(* and none is sent when the inbound state is missing or blank.            *)
(***************************************************************************)
C7_TwoLetterState ==
    (Responded("search_organizations") /\ calls # <<>>) =>
        LET url == calls[1].url
        IN  /\ IsSearchUrl(url)
            /\ StateAt(url) # 0 =>
                  /\ Len(SentState(url)) = 2
                  /\ \A i \in DOMAIN SentState(url) : SentState(url)[i] \in Range(UpperLetters)
            /\ Missing("state") => StateAt(url) = 0

(***************************************************************************)
(* C7 amended: the state filter, when present, is the inbound state        *)
(* trimmed and uppercased, of whatever length, carried only in state[id]   *)
(* (the search term is the trimmed q); it is an uppercase two-letter value *)
(* when the trimmed inbound state is two letters; it is sent exactly when  *)
(* the inbound state is neither missing nor blank.                         *)
(***************************************************************************)
C7_UppercasedState ==
    (Responded("search_organizations") /\ calls # <<>>) =>
        LET url == calls[1].url
            inbound == Trimmed(args_get(req.args, "state"))
        IN  /\ IsSearchUrl(url)
            /\ SentQuery(url) = Trimmed(req.args["q"])
            /\ Missing("state") <=> StateAt(url) = 0
            /\ StateAt(url) # 0 =>
                  /\ Len(SentState(url)) = Len(inbound)
                  /\ Lower(SentState(url)) = Lower(inbound)
                  /\ \A i \in DOMAIN SentState(url) :
                        SentState(url)[i] \notin Range(LowerLetters)
                  /\ (Len(inbound) = 2 /\ \A i \in DOMAIN inbound : IsAlpha(inbound[i]))
                        => \A i \in DOMAIN SentState(url) :
                              SentState(url)[i] \in Range(UpperLetters)

C7_Witness ==
    /\ Responded("search_organizations")
    /\ req.args = [k \in {"q", "state"} |-> IF k = "q" THEN <<"a">> ELSE <<"c", "a">>]
    /\ Len(calls) = 1
    /\ SentState(calls[1].url) = <<"C", "A">>

(***************************************************************************)
(* C8: in every upstream search call of the name search and of the domain  *)
(* search, the q term sent is a non-empty string.                          *)
(***************************************************************************)
C8_NonEmptyTerm ==
    (pc = "responded" /\ route \in {"search_organizations", "search_by_domain"}
     /\ calls # <<>>) =>
        /\ IsSearchUrl(calls[1].url)
        /\ SentQuery(calls[1].url) # <<>>

(***************************************************************************)
(* C9: the term the domain search sends is the first dot-separated label   *)
(* of the host of the domain parsed as a URL (with the default scheme when *)
(* it has no "://"), and the raw domain when the host has no labels; no    *)
(* state filter is sent.                                                   *)
(***************************************************************************)
C9_DerivedTerm ==
    (Responded("search_by_domain") /\ calls # <<>>) =>
        LET domain == Trimmed(req.args["domain"])
            host == urlparse(with_scheme(domain)).netloc
            url == calls[1].url
        IN  /\ IsSearchUrl(url)
            /\ StateAt(url) = 0
            /\ SentQuery(url) = IF host = <<>> THEN domain ELSE Split(host, ".")[1]

(***************************************************************************)
(* C10: on a 2xx upstream response with a well-formed JSON body each data  *)
(* endpoint answers 200 with that body, whatever the shape of the value.   *)
(***************************************************************************)
C10_VerbatimSuccess ==
    (pc = "responded" /\ calls # <<>>
     /\ upstream.kind = "response" /\ upstream.status_code = 200
     /\ upstream.body \in JsonValues) =>
        resp = [status |-> 200, body |-> upstream.body]
====
